---------------------------- MODULE Spec2Model ----------------------------
(***************************************************************************)
(* A model of the fiber-profiler capture engine (ext/fiber/profiler):      *)
(* the paged arena of deque.h and the capture state machine, sampling,     *)
(* window finalisation and report rendering of capture.c.                  *)
(*                                                                         *)
(* Time is the monotonic clock in integer ticks; Fiber_Profiler_Time_delta *)
(* is the difference of two clock reads.  A slot of the arena is named by  *)
(* a handle (page number and index folded into one positive integer),      *)
(* NULL is 0.  Pages are never freed by push, pop or truncate, so a handle *)
(* names the same slot for the life of the deque.                          *)
(***************************************************************************)
EXTENDS Integers, Sequences, FiniteSets, TLC

VARIABLES
    capture,    \* struct Fiber_Profiler_Capture (capture.c:71-128)
    now,        \* the host's monotonic clock (clock_gettime(CLOCK_MONOTONIC))
    hooks,      \* the host thread's event hooks registered by this session
    io,         \* what has been written: to the output sink and to stderr
    last_op,    \* the last operation performed and what it observed
    window,     \* the events the callback recorded in the current window
    crashed,    \* the process has faulted (a NULL dereference)
    deque,      \* a stand-alone Fiber_Profiler_Deque, for the arena's own contract
    trace,      \* the operations performed on the stand-alone deque
    script      \* the remaining steps of a scripted scenario

vars == <<capture, now, hooks, io, last_op, window, crashed, deque, trace, script>>

-----------------------------------------------------------------------------
(* Bounds of the model. *)

\* Slots per page.  The code's pages hold (4096*8 - sizeof(Page)) / element_size
\* slots (deque.h:168-173); the model's pages hold this many.
PageCapacity == 2

\* Pages the allocator will hand out before the model stops growing the arena.
MaxPages == 2

\* The clock stops advancing here.
MaxTime == 3

\* The most the clock advances between two reads.
MaxTick == 2

\* Fiber switches delivered in one behaviour.
MaxSwitches == 2

\* Events recorded in one window.
MaxEvents == 4

\* Operations performed on the stand-alone deque.
MaxOps == 7

\* Options in which a configuration differs from the default one.
MaxOptions == 1

\* Orphan returns that open a scripted window.
MaxOrphans == 2

-----------------------------------------------------------------------------
(* Program constants. *)

NULL == 0

\* sizeof(struct Fiber_Profiler_Deque_Page) without the flexible array (LP64).
PageHeaderSize == 32

\* sizeof(struct Fiber_Profiler_Capture_Call) (LP64).
ElementSize == 96

Min(a, b) == IF a < b THEN a ELSE b

-----------------------------------------------------------------------------
(* deque.h: the paged arena. *)

\* The slot a handle names.
PageOf(h) == ((h - 1) \div PageCapacity) + 1
IndexOf(h) == ((h - 1) % PageCapacity) + 1
Handle(p, i) == (p - 1) * PageCapacity + i

\* Fiber_Profiler_Capture_Call_initialize: the default-initialised frame.  The
\* hook leaves `parent` as the slot held it; Call_new assigns it before any read.
Fiber_Profiler_Capture_Call_initialize ==
    [enter_time |-> 0, duration |-> 0, nesting |-> 0, children |-> 0,
     filtered |-> 0, event_flag |-> "none", id |-> "none", parent |-> NULL]

Fiber_Profiler_Deque_Page_allocate(capacity) ==
    [head |-> NULL, tail |-> NULL, size |-> 0, capacity |-> capacity,
     elements |-> <<>>]

Fiber_Profiler_Deque_initialize ==
    [head |-> NULL, tail |-> NULL, capacity |-> 0, pages |-> <<>>,
     allocations |-> 0]

Fiber_Profiler_Deque_default_capacity == PageCapacity

\* A live slot of the deque: the page exists and index < page->size.
Live(d, h) ==
    /\ h # NULL
    /\ PageOf(h) <= Len(d.pages)
    /\ IndexOf(h) <= d.pages[PageOf(h)].size

Fiber_Profiler_Deque_Page_get(d, h) == d.pages[PageOf(h)].elements[IndexOf(h)]

\* The loop of memory_size, from `page` on.
RECURSIVE DequeMemoryFrom(_, _)
DequeMemoryFrom(d, page) ==
    IF page = NULL THEN 0
    ELSE PageHeaderSize + d.pages[page].capacity * ElementSize
         + DequeMemoryFrom(d, d.pages[page].tail)

Fiber_Profiler_Deque_memory_size(d) == DequeMemoryFrom(d, d.head)

\* Whether this push calls Fiber_Profiler_Deque_Page_allocate (malloc).
DequePushAllocates(d) ==
    \/ d.tail = NULL
    \/ /\ d.pages[d.tail].size = d.pages[d.tail].capacity
       /\ d.pages[d.tail].tail = NULL

\* The tail of push: page->size += 1, initialise the new slot.
DequePushElement(d, page) ==
    [deque |-> [d EXCEPT !.pages[page].size = @ + 1,
                         !.pages[page].elements =
                             Append(@, Fiber_Profiler_Capture_Call_initialize)],
     element |-> Handle(page, d.pages[page].size + 1)]

\* Fiber_Profiler_Deque_push; malloc_ok is whether malloc succeeds if called.
\* The result is the deque after the call and the slot returned (NULL on failure).
Fiber_Profiler_Deque_push(d, malloc_ok) ==
    IF d.tail = NULL THEN
        IF ~malloc_ok THEN [deque |-> d, element |-> NULL]
        ELSE DequePushElement(
                 [d EXCEPT !.pages = <<Fiber_Profiler_Deque_Page_allocate(
                                          Fiber_Profiler_Deque_default_capacity)>>,
                           !.head = 1, !.tail = 1,
                           !.capacity = @ + Fiber_Profiler_Deque_default_capacity,
                           !.allocations = @ + 1], 1)
    ELSE IF d.pages[d.tail].size = d.pages[d.tail].capacity THEN
        IF d.pages[d.tail].tail # NULL THEN
            DequePushElement([d EXCEPT !.tail = d.pages[d.tail].tail],
                             d.pages[d.tail].tail)
        ELSE IF ~malloc_ok THEN [deque |-> d, element |-> NULL]
        ELSE DequePushElement(
                 [d EXCEPT !.pages =
                               Append([@ EXCEPT ![d.tail].tail = Len(d.pages) + 1],
                                      [Fiber_Profiler_Deque_Page_allocate(
                                           Fiber_Profiler_Deque_default_capacity)
                                       EXCEPT !.head = d.tail]),
                           !.tail = Len(d.pages) + 1,
                           !.capacity = @ + Fiber_Profiler_Deque_default_capacity,
                           !.allocations = @ + 1],
                 Len(d.pages) + 1)
    ELSE DequePushElement(d, d.tail)

\* A pop and last that look at the tail page only.
DequeTailPage(d, page) == page

\* The page pop and last settle on: walk back from the tail over empty pages.
RECURSIVE DequeLastPage(_, _)
DequeLastPage(d, page) ==
    IF page = NULL THEN NULL
    ELSE IF d.pages[page].size = 0 THEN DequeLastPage(d, d.pages[page].head)
    ELSE page

\* Fiber_Profiler_Deque_last: the tail element, NULL if there is none.
DequeLastIn(d, page) ==
    IF page = NULL THEN NULL ELSE Handle(page, d.pages[page].size)

Fiber_Profiler_Deque_last(d) == DequeLastIn(d, DequeLastPage(d, d.tail))

\* A pop that leaves deque->tail where it was.
DequePopInKeepingTail(d, page) ==
    IF page = NULL THEN [deque |-> d, element |-> NULL]
    ELSE [deque |-> [d EXCEPT !.pages[page].size = @ - 1,
                              !.pages[page].elements = SubSeq(@, 1, Len(@) - 1)],
          element |-> Handle(page, d.pages[page].size)]

\* Fiber_Profiler_Deque_pop: the deque after the call and the slot popped.  When
\* every page is empty the call returns NULL and changes nothing.
DequePopIn(d, page) ==
    IF page = NULL THEN [deque |-> d, element |-> NULL]
    ELSE [deque |-> [d EXCEPT !.tail = page,
                              !.pages[page].size = @ - 1,
                              !.pages[page].elements = SubSeq(@, 1, Len(@) - 1)],
          element |-> Handle(page, d.pages[page].size)]

Fiber_Profiler_Deque_pop(d) == DequePopIn(d, DequeLastPage(d, d.tail))

\* Fiber_Profiler_Deque_Page_truncate(page, 0, ...).
Fiber_Profiler_Deque_Page_truncate(page) ==
    IF 0 < page.size THEN [page EXCEPT !.size = 0, !.elements = <<>>] ELSE page

\* A truncate that releases the pages, as Fiber_Profiler_Deque_free does.
DequeTruncateFreeing(d) ==
    [d EXCEPT !.pages = <<>>, !.head = NULL, !.tail = NULL, !.capacity = 0]

\* Fiber_Profiler_Deque_truncate: every page from the tail back to the head is
\* emptied, none is freed, and the tail is rewound to the head page.
RECURSIVE DequeTruncateFrom(_, _)
DequeTruncateFrom(pages, page) ==
    IF page = NULL THEN pages
    ELSE DequeTruncateFrom(
             [pages EXCEPT ![page] = Fiber_Profiler_Deque_Page_truncate(@)],
             pages[page].head)

Fiber_Profiler_Deque_truncate(d) ==
    [d EXCEPT !.pages = DequeTruncateFrom(d.pages, d.tail), !.tail = d.head]

\* The slots Fiber_Profiler_Deque_Page_truncate(page, size, ...) and
\* Fiber_Profiler_Deque_Page_free (size 0) pass to element_free, in order.
PageFinalized(d, page, size) ==
    [i \in 1..(d.pages[page].size - size) |-> Handle(page, size + i)]

\* The slots pop passes to element_free: the one it returns, if any.
PopFinalized(d) ==
    IF Fiber_Profiler_Deque_pop(d).element = NULL THEN <<>>
    ELSE <<Fiber_Profiler_Deque_pop(d).element>>

\* The slots truncate passes to element_free: page by page from the tail back
\* to the head.
RECURSIVE TruncateFinalizedFrom(_, _)
TruncateFinalizedFrom(d, page) ==
    IF page = NULL THEN <<>>
    ELSE PageFinalized(d, page, 0) \o TruncateFinalizedFrom(d, d.pages[page].head)

\* A truncate that finalizes the elements of the tail page only.
TruncateFinalizedTailOnly(d) ==
    IF d.tail = NULL THEN <<>> ELSE PageFinalized(d, d.tail, 0)

TruncateFinalized(d) == TruncateFinalizedFrom(d, d.tail)

\* The slots Fiber_Profiler_Deque_free passes to element_free: page by page
\* from the head on.
RECURSIVE FreeFinalizedFrom(_, _)
FreeFinalizedFrom(d, page) ==
    IF page = NULL THEN <<>>
    ELSE PageFinalized(d, page, 0) \o FreeFinalizedFrom(d, d.pages[page].tail)

FreeFinalized(d) == FreeFinalizedFrom(d, d.head)

\* Fiber_Profiler_Deque_free: head and tail are cleared and every page is
\* released; capacity is left as it was.
Fiber_Profiler_Deque_free(d) ==
    [d EXCEPT !.pages = <<>>, !.head = NULL, !.tail = NULL]

\* Fiber_Profiler_Deque_each: the handles the macro visits, in order.  The outer
\* loop runs from the head page while page != NULL && page->size.
RECURSIVE DequeEachFrom(_, _)
DequeEachFrom(d, page) ==
    IF page = NULL \/ d.pages[page].size = 0 THEN <<>>
    ELSE [i \in 1..d.pages[page].size |-> Handle(page, i)]
         \o DequeEachFrom(d, d.pages[page].tail)

Fiber_Profiler_Deque_each(d) == DequeEachFrom(d, d.head)

\* Fiber_Profiler_Deque_reserve_default (called at capture.c:264): reserve the
\* first page ahead of the first push; on allocation failure the deque is left
\* without a page.
Fiber_Profiler_Deque_reserve_default(d, malloc_ok) ==
    IF d.head # NULL \/ ~malloc_ok THEN d
    ELSE [d EXCEPT !.pages = <<Fiber_Profiler_Deque_Page_allocate(
                                   Fiber_Profiler_Deque_default_capacity)>>,
                   !.head = 1, !.tail = 1,
                   !.capacity = @ + Fiber_Profiler_Deque_default_capacity,
                   !.allocations = @ + 1]

-----------------------------------------------------------------------------
(* capture.c: frames, the filter and the event callback. *)

\* rb_event_flag_t values the callback classifies (capture.c:316-322).
CallEvents == {"call", "c-call", "b-call", "gc-start"}
ReturnEvents == {"return", "c-return", "b-return", "gc-end-sweep"}
GCEvents == {"gc-start", "gc-end-sweep"}

event_flag_call_p(event_flag) == event_flag \in CallEvents

event_flag_return_p(event_flag) == event_flag \in ReturnEvents

\* A delta with its operands exchanged.
TimeDeltaReversed(start, stop) == start - stop

\* Fiber_Profiler_Time_delta(start, stop), in ticks.
Fiber_Profiler_Time_delta(start, stop) == stop - start

\* Fiber_Profiler_Time_elapsed(start, stop, &duration), in ticks.
Fiber_Profiler_Time_elapsed(start, stop) == stop - start

\* *call, for a handle into capture->calls.
Frame(c, call) == Fiber_Profiler_Deque_Page_get(c.calls, call)

SetFrame(c, call, frame) ==
    [c EXCEPT !.calls.pages[PageOf(call)].elements[IndexOf(call)] = frame]

\* A new frame that its parent does not count.
AddChildUncounted(c, parent) == c

\* The parent's child counter goes up (call->parent->children += 1).
AddChild(c, parent) ==
    IF parent # NULL
    THEN SetFrame(c, parent, [Frame(c, parent) EXCEPT !.children = @ + 1])
    ELSE c

\* The body of Call_new once push has returned the slot pushed.element.
CallNewInto(c, pushed, event_flag, id) ==
    [capture |->
         [SetFrame(AddChild([c EXCEPT !.calls = pushed.deque], c.current),
                   pushed.element,
                   [Fiber_Profiler_Deque_Page_get(pushed.deque, pushed.element)
                        EXCEPT !.event_flag = event_flag,
                               !.parent = c.current,
                               !.nesting = c.nesting,
                               !.id = id])
          EXCEPT !.current = pushed.element],
     call |-> pushed.element]

\* Fiber_Profiler_Capture_Call_new, when push returned a slot.  The result is
\* the session after the call and the new frame's handle.
Fiber_Profiler_Capture_Call_new(c, event_flag, id, malloc_ok) ==
    CallNewInto(c, Fiber_Profiler_Deque_push(c.calls, malloc_ok), event_flag, id)

\* Counters of a parent that loses the child without counting it as filtered.
RemoveChildUncounted(c, parent) ==
    IF parent # NULL
    THEN SetFrame(c, parent, [Frame(c, parent) EXCEPT !.children = @ - 1])
    ELSE c

\* The parent's counters when a child is filtered.
RemoveChild(c, parent) ==
    IF parent # NULL
    THEN SetFrame(c, parent, [Frame(c, parent) EXCEPT !.children = @ - 1,
                                                      !.filtered = @ + 1])
    ELSE c

PopCall(c) == [c EXCEPT !.calls = Fiber_Profiler_Deque_pop(c.calls).deque]

\* A filter that pops whenever the finished frame is short, tail or not.
CallFinishWithoutTailTest(c, call) ==
    IF event_flag_return_p(Frame(c, call).event_flag) THEN c
    ELSE IF Frame(c, call).duration < c.filter_threshold
    THEN PopCall(RemoveChild(
             IF c.current = call
             THEN [c EXCEPT !.current = Frame(c, call).parent] ELSE c,
             Frame(c, call).parent))
    ELSE c

\* Fiber_Profiler_Capture_Call_finish: the filter.  A finished frame is popped
\* when it is not return-class, shorter than the filter threshold and the tail.
Fiber_Profiler_Capture_Call_finish(c, call) ==
    IF event_flag_return_p(Frame(c, call).event_flag) THEN c
    ELSE IF /\ Frame(c, call).duration < c.filter_threshold
            /\ call = Fiber_Profiler_Deque_last(c.calls)
    THEN PopCall(RemoveChild(
             IF c.current = call
             THEN [c EXCEPT !.current = Frame(c, call).parent] ELSE c,
             Frame(c, call).parent))
    ELSE c

\* Whether the callback creates a frame for this event (calls Call_new).
CallbackPushes(c, event_flag) ==
    /\ c.capture
    /\ \/ event_flag_call_p(event_flag)
       \/ event_flag_return_p(event_flag) /\ c.current = NULL
       \/ ~event_flag_call_p(event_flag) /\ ~event_flag_return_p(event_flag)

\* Call_new does not test the slot push returns (capture.c:341-343): when the
\* page allocation fails it stores call->event_flag at a small offset from
\* address 0, which traps.
CallbackFaults(c, event_flag, malloc_ok) ==
    /\ CallbackPushes(c, event_flag)
    /\ Fiber_Profiler_Deque_push(c.calls, malloc_ok).element = NULL

\* A borrowed time that is always the session's start time.
BorrowedStartTime(c) == c.start_time

\* The enter time a frame without a call of its own borrows: that of the tail
\* frame, or the switch time when the arena is empty.
BorrowedTime(c) ==
    IF Fiber_Profiler_Deque_last(c.calls) # NULL
    THEN Frame(c, Fiber_Profiler_Deque_last(c.calls)).enter_time
    ELSE c.switch_time

\* A call branch that does not count the call in the nesting.
CallbackCallUncounted(new, t) ==
    SetFrame(new.capture, new.call,
             [Frame(new.capture, new.call) EXCEPT !.enter_time = t])

\* The call branch after Call_new: nesting += 1, enter_time = now.
CallbackCall(new, t) ==
    SetFrame([new.capture EXCEPT !.nesting = @ + 1], new.call,
             [Frame(new.capture, new.call) EXCEPT !.enter_time = t])

\* A return that does not track the minimum.
TrackNoMinimum(c) == c

\* The running minimum of the nesting.
TrackMinimum(c) ==
    IF c.nesting < c.nesting_minimum
    THEN [c EXCEPT !.nesting_minimum = c.nesting] ELSE c

\* A return branch that leaves `current` on the returning frame.
CallbackReturnedInPlace(c, call) ==
    Fiber_Profiler_Capture_Call_finish(
        TrackMinimum([c EXCEPT !.nesting = @ - 1]), call)

\* The end of the return branch: current = call->parent, nesting -= 1, the
\* minimum, then the filter.
CallbackReturned(c, call) ==
    Fiber_Profiler_Capture_Call_finish(
        TrackMinimum([c EXCEPT !.current = Frame(c, call).parent,
                               !.nesting = @ - 1]),
        call)

\* The return branch with no current frame: a frame is synthesised.
CallbackOrphan(new, call_time, t) ==
    CallbackReturned(
        SetFrame(new.capture, new.call,
                 [Frame(new.capture, new.call)
                      EXCEPT !.enter_time = t,
                             !.duration = Fiber_Profiler_Time_delta(call_time, t)]),
        new.call)

\* The branch for an event that is neither call- nor return-class.
CallbackOther(new, enter_time, t) ==
    SetFrame(new.capture, new.call,
             [Frame(new.capture, new.call)
                  EXCEPT !.enter_time = enter_time,
                         !.duration = Fiber_Profiler_Time_delta(enter_time, t)])

\* Fiber_Profiler_Capture_callback at clock reading t, when it does not fault.
Fiber_Profiler_Capture_callback(c, event_flag, id, t, malloc_ok) ==
    IF ~c.capture THEN c
    ELSE IF event_flag_call_p(event_flag) THEN
        CallbackCall(Fiber_Profiler_Capture_Call_new(c, event_flag, id, malloc_ok), t)
    ELSE IF event_flag_return_p(event_flag) THEN
        IF c.current = NULL
        THEN CallbackOrphan(
                 Fiber_Profiler_Capture_Call_new(c, event_flag, id, malloc_ok),
                 BorrowedTime(c), t)
        ELSE CallbackReturned(
                 SetFrame(c, c.current,
                          [Frame(c, c.current)
                               EXCEPT !.duration =
                                   Fiber_Profiler_Time_delta(
                                       Frame(c, c.current).enter_time, t)]),
                 c.current)
    ELSE CallbackOther(Fiber_Profiler_Capture_Call_new(c, event_flag, id, malloc_ok),
                       BorrowedTime(c), t)

-----------------------------------------------------------------------------
(* capture.c: the report renderers. *)

\* Fiber_Profiler_Capture_SKIP_THRESHOLD (0.98) and
\* Fiber_Profiler_Capture_Call_EXPENSIVE_THRESHOLD (0.2), in hundredths.
SKIP_THRESHOLD == 98
EXPENSIVE_THRESHOLD == 20

\* The stored nesting, not rebased on the minimum.
RelativeNesting(c, call) == Frame(c, call).nesting

Fiber_Profiler_Capture_absolute_nesting(c, call) ==
    Frame(c, call).nesting - c.nesting_minimum

Fiber_Profiler_Capture_Call_expensive_p(c, call, duration) ==
    Frame(c, call).duration * 100 > duration * EXPENSIVE_THRESHOLD

SetNesting(c, call, nesting) ==
    SetFrame(c, call, [Frame(c, call) EXCEPT !.nesting = nesting])

\* An elision test that does not ask whether the frame has a child.
SkipCallChildless(c, call) ==
    /\ Frame(c, call).parent # NULL
    /\ Frame(c, Frame(c, call).parent).children = 1
    /\ Frame(c, call).duration * 100
           > Frame(c, Frame(c, call).parent).duration * SKIP_THRESHOLD

\* The test both renderers make before eliding a frame.
SkipCall(c, call) ==
    /\ Frame(c, call).children # 0
    /\ Frame(c, call).parent # NULL
    /\ Frame(c, Frame(c, call).parent).children = 1
    /\ Frame(c, call).duration * 100
           > Frame(c, Frame(c, call).parent).duration * SKIP_THRESHOLD

\* An elided frame takes its parent's nesting.
SkippedNesting(c, call) ==
    SetNesting(c, call, Frame(c, Frame(c, call).parent).nesting)

\* A frame that is shown takes its parent's nesting + 1.
ShownNesting(c, call) ==
    IF Frame(c, call).parent # NULL
    THEN SetNesting(c, call, Frame(c, Frame(c, call).parent).nesting + 1)
    ELSE c

\* One record of the "calls" array.
JsonRecord(c, call, skipped) ==
    [method |-> Frame(c, call).id,
     duration |-> Frame(c, call).duration,
     offset |-> Fiber_Profiler_Time_elapsed(c.switch_time, Frame(c, call).enter_time),
     nesting |-> Fiber_Profiler_Capture_absolute_nesting(c, call),
     skipped |-> skipped,
     filtered |-> Frame(c, call).filtered]

\* The loop of Fiber_Profiler_Capture_print_json over the frames `calls`.  The
\* renderer rewrites call->nesting as it goes.
RECURSIVE PrintJsonCalls(_, _, _, _)
PrintJsonCalls(c, calls, skipped, out) ==
    IF calls = <<>> THEN [capture |-> c, calls |-> out, skipped |-> skipped]
    ELSE IF SkipCall(c, Head(calls))
    THEN PrintJsonCalls(SkippedNesting(c, Head(calls)), Tail(calls), skipped + 1, out)
    ELSE PrintJsonCalls(
             ShownNesting(c, Head(calls)), Tail(calls), 0,
             Append(out, JsonRecord(ShownNesting(c, Head(calls)), Head(calls), skipped)))

\* The document a renderer leaves in the stream, and whether it wrote to stderr.
Rendered(c, walk, kind, stderr, duration) ==
    [capture |-> walk.capture,
     stderr |-> stderr,
     document |->
         [kind |-> kind,
          start_time |-> Fiber_Profiler_Time_delta(c.start_time, c.switch_time),
          duration |-> duration,
          calls |-> walk.calls,
          skipped |-> walk.skipped,
          switches |-> c.switches, samples |-> c.samples, stalls |-> c.stalls]]

\* Fiber_Profiler_Capture_print_json: the session after rendering and the
\* document staged in the stream.
Fiber_Profiler_Capture_print_json(c, duration) ==
    Rendered(c, PrintJsonCalls(c, Fiber_Profiler_Deque_each(c.calls), 0, <<>>),
             "json", 0, duration)

\* call->nesting += 1 after the marker of the frames elided before this one.
AfterMarker(c, call, skipped) ==
    IF skipped # 0 THEN SetNesting(c, call, Frame(c, call).nesting + 1) ELSE c

\* The lines print_tty writes for a frame that is shown: c is the session when
\* the marker is written, c2 the session when the frame's own line is.
TtyLines(c, c2, call, skipped, duration) ==
    (IF skipped # 0
     THEN <<[line |-> "skipped",
             nesting |-> Fiber_Profiler_Capture_absolute_nesting(c, call),
             count |-> skipped]>>
     ELSE <<>>)
    \o <<[line |-> "call",
          nesting |-> Fiber_Profiler_Capture_absolute_nesting(c2, call),
          method |-> Frame(c2, call).id,
          event_flag |-> Frame(c2, call).event_flag,
          duration |-> Frame(c2, call).duration,
          offset |-> Fiber_Profiler_Time_elapsed(c2.switch_time,
                                                 Frame(c2, call).enter_time),
          expensive |-> Fiber_Profiler_Capture_Call_expensive_p(c2, call, duration)]>>
    \o (IF Frame(c2, call).filtered # 0
        THEN <<[line |-> "filtered",
                nesting |-> Fiber_Profiler_Capture_absolute_nesting(c2, call) + 1,
                count |-> Frame(c2, call).filtered]>>
        ELSE <<>>)

\* The loop of Fiber_Profiler_Capture_print_tty: one line per frame shown, a
\* marker line before a frame that follows elided ones, and a marker line after
\* a frame with filtered children.
RECURSIVE PrintTtyCalls(_, _, _, _, _)
PrintTtyCalls(c, calls, skipped, out, duration) ==
    IF calls = <<>> THEN [capture |-> c, calls |-> out, skipped |-> skipped]
    ELSE IF SkipCall(c, Head(calls))
    THEN PrintTtyCalls(SkippedNesting(c, Head(calls)), Tail(calls), skipped + 1,
                       out, duration)
    ELSE PrintTtyCalls(
             AfterMarker(ShownNesting(c, Head(calls)), Head(calls), skipped),
             Tail(calls), 0,
             out \o TtyLines(ShownNesting(c, Head(calls)),
                             AfterMarker(ShownNesting(c, Head(calls)),
                                         Head(calls), skipped),
                             Head(calls), skipped, duration),
             duration)

\* Fiber_Profiler_Capture_print_tty.  The header line goes to stderr, not to the
\* stream (capture.c:633).
Fiber_Profiler_Capture_print_tty(c, duration) ==
    Rendered(c, PrintTtyCalls(c, Fiber_Profiler_Deque_each(c.calls), 0, <<>>, duration),
             "tty", 1, duration)

\* The report of an operation that rendered none.
NoDocument == [kind |-> "none"]

\* The session, its hooks and its sinks, as the handlers below pass them on.
World == [capture |-> capture, hooks |-> hooks, io |-> io, document |-> NoDocument]

\* The stream is written to the output in one rb_io_write and rewound.
Written(w, printed) ==
    [w EXCEPT !.capture = printed.capture,
              !.io.prints = @ + 1,
              !.io.renders = @ + 1,
              !.io.writes = @ + 1,
              !.io.stderr = @ + printed.stderr,
              !.io.staged = 0,
              !.document = printed.document]

\* rb_io_write raises: the exception leaves print before the stream is rewound,
\* so the rendered report stays in the stream and nothing reaches the output.
WriteRaised(w, printed) ==
    [w EXCEPT !.capture = printed.capture,
              !.io.prints = @ + 1,
              !.io.renders = @ + 1,
              !.io.stderr = @ + printed.stderr,
              !.io.staged = @ + 1]

\* Fiber_Profiler_Capture_print: nothing is rendered without an output.
Fiber_Profiler_Capture_print(w, duration) ==
    IF w.capture.output = "nil" THEN [w EXCEPT !.io.prints = @ + 1]
    ELSE IF w.capture.output = "tty"
    THEN Written(w, Fiber_Profiler_Capture_print_tty(w.capture, duration))
    ELSE Written(w, Fiber_Profiler_Capture_print_json(w.capture, duration))

\* Fiber_Profiler_Capture_print with an output whose write raises.
PrintRaised(w, duration) ==
    IF w.capture.output = "tty"
    THEN WriteRaised(w, Fiber_Profiler_Capture_print_tty(w.capture, duration))
    ELSE WriteRaised(w, Fiber_Profiler_Capture_print_json(w.capture, duration))

-----------------------------------------------------------------------------
(* capture.c: the session controller. *)

\* RAND_MAX, scaled: rand() returns a value in 0..RAND_MAX.
RAND_MAX == 2

\* A pause that clears the capturing flag and leaves the hooks registered.
PauseKeepingHooks(w) ==
    IF ~w.capture.capture THEN w ELSE [w EXCEPT !.capture.capture = FALSE]

\* Fiber_Profiler_Capture_pause.
Fiber_Profiler_Capture_pause(w) ==
    IF ~w.capture.capture THEN w
    ELSE [w EXCEPT !.capture.capture = FALSE,
                   !.hooks.callback = IF w.capture.track_calls THEN 0 ELSE @,
                   !.hooks.gc = IF w.capture.track_calls THEN 0 ELSE @]

\* A resume that attaches the hooks whether or not track_calls is set.
ResumeAlwaysHooking(w) ==
    IF w.capture.capture THEN w
    ELSE [w EXCEPT !.capture.capture = TRUE,
                   !.capture.samples = @ + 1,
                   !.hooks.callback = @ + 1,
                   !.hooks.gc = @ + 1]

\* Fiber_Profiler_Capture_resume.
Fiber_Profiler_Capture_resume(w) ==
    IF w.capture.capture THEN w
    ELSE [w EXCEPT !.capture.capture = TRUE,
                   !.capture.samples = @ + 1,
                   !.hooks.callback = IF w.capture.track_calls THEN @ + 1 ELSE @,
                   !.hooks.gc = IF w.capture.track_calls THEN @ + 1 ELSE @]

\* A reset that truncates the arena and leaves `current` as it is.
ResetKeepingCurrent(c) ==
    [c EXCEPT !.nesting = 0,
              !.nesting_minimum = 0,
              !.calls = Fiber_Profiler_Deque_truncate(c.calls)]

\* A reset that clears the counters as well.
ResetClearingCounters(c) ==
    [c EXCEPT !.nesting = 0,
              !.nesting_minimum = 0,
              !.current = NULL,
              !.calls = Fiber_Profiler_Deque_truncate(c.calls),
              !.switches = 0,
              !.samples = 0,
              !.stalls = 0]

\* Fiber_Profiler_Capture_reset.
Fiber_Profiler_Capture_reset(c) ==
    [c EXCEPT !.nesting = 0,
              !.nesting_minimum = 0,
              !.current = NULL,
              !.calls = Fiber_Profiler_Deque_truncate(c.calls)]

\* A start that opens the first window itself.
StartCapturing(w, t) ==
    IF w.capture.running THEN w
    ELSE Fiber_Profiler_Capture_resume(
             [w EXCEPT !.capture =
                           [Fiber_Profiler_Capture_reset(
                                [w.capture EXCEPT !.running = TRUE,
                                                  !.thread = "current"])
                            EXCEPT !.start_time = t, !.switch_time = t],
                       !.hooks.fiber_switch = @ + 1])

\* A start that does not test whether the session is running.
StartUnguarded(w, t) ==
    [w EXCEPT !.capture =
                  [Fiber_Profiler_Capture_reset(
                       [w.capture EXCEPT !.running = TRUE, !.thread = "current"])
                   EXCEPT !.start_time = t],
              !.hooks.fiber_switch = @ + 1]

\* Fiber_Profiler_Capture_start at clock reading t.
Fiber_Profiler_Capture_start(w, t) ==
    IF w.capture.running THEN w
    ELSE [w EXCEPT !.capture =
                       [Fiber_Profiler_Capture_reset(
                            [w.capture EXCEPT !.running = TRUE, !.thread = "current"])
                        EXCEPT !.start_time = t],
                   !.hooks.fiber_switch = @ + 1]

\* A stop that does not pause first.
StopWithoutPause(w) ==
    IF ~w.capture.running THEN w
    ELSE [w EXCEPT !.hooks.fiber_switch = 0,
                   !.capture = Fiber_Profiler_Capture_reset(
                                   [w.capture EXCEPT !.running = FALSE,
                                                     !.thread = "nil"])]

\* stop after its pause: the fiber-switch hook is removed, the session reset.
Stopped(w) ==
    [w EXCEPT !.hooks.fiber_switch = 0,
              !.capture = Fiber_Profiler_Capture_reset(
                              [w.capture EXCEPT !.running = FALSE, !.thread = "nil"])]

\* Fiber_Profiler_Capture_stop.
Fiber_Profiler_Capture_stop(w) ==
    IF ~w.capture.running THEN w
    ELSE Stopped(Fiber_Profiler_Capture_pause(w))

\* The loop of Fiber_Profiler_Capture_finish from `current` up the parent chain.
\* The parent is read before the frame is filtered.
RECURSIVE FinishFrom(_, _, _)
FinishFrom(c, current, switch_time) ==
    IF current = NULL THEN c
    ELSE FinishFrom(
             Fiber_Profiler_Capture_Call_finish(
                 SetFrame(c, current,
                          [Frame(c, current)
                               EXCEPT !.duration =
                                   Fiber_Profiler_Time_delta(
                                       Frame(c, current).enter_time, switch_time)]),
                 current),
             Frame(c, current).parent, switch_time)

\* Fiber_Profiler_Capture_finish: force-close the open frames, innermost first.
Fiber_Profiler_Capture_finish(c, switch_time) == FinishFrom(c, c.current, switch_time)

\* A sampling decision that also succeeds when the draw equals the bound.
SampleInclusive(c, blocking, draw) ==
    IF blocking THEN FALSE
    ELSE IF c.sample_rate < 100 THEN draw * 100 <= RAND_MAX * c.sample_rate
    ELSE TRUE

\* Fiber_Profiler_Capture_sample: blocking is Fiber#blocking? of the fiber
\* switched to, draw is the value rand() returns if it is called.
Fiber_Profiler_Capture_sample(c, blocking, draw) ==
    IF blocking THEN FALSE
    ELSE IF c.sample_rate < 100 THEN draw * 100 < RAND_MAX * c.sample_rate
    ELSE TRUE

\* A stall test that also fires at the threshold.
StallCheckInclusive(w, duration) ==
    IF duration >= w.capture.stall_threshold
    THEN Fiber_Profiler_Capture_print([w EXCEPT !.capture.stalls = @ + 1], duration)
    ELSE w

\* The stall test of fiber_switch on a finished window.
StallCheck(w, duration) ==
    IF duration > w.capture.stall_threshold
    THEN Fiber_Profiler_Capture_print([w EXCEPT !.capture.stalls = @ + 1], duration)
    ELSE w

\* An end of window that reports before it force-closes the open frames.
EndWindowReportFirst(w, t1) ==
    IF w.capture.capture
    THEN [StallCheck(Fiber_Profiler_Capture_pause(w),
                     Fiber_Profiler_Time_delta(w.capture.switch_time, t1))
          EXCEPT !.capture =
              Fiber_Profiler_Capture_reset(Fiber_Profiler_Capture_finish(@, t1))]
    ELSE w

\* The first half of fiber_switch: count the switch and, when capturing, end
\* the window at clock reading t1: pause, finish, the stall test, reset.
EndWindow(w, t1) ==
    IF w.capture.capture
    THEN [StallCheck(
              [Fiber_Profiler_Capture_pause(w) EXCEPT !.capture =
                   Fiber_Profiler_Capture_finish(@, t1)],
              Fiber_Profiler_Time_delta(w.capture.switch_time, t1))
          EXCEPT !.capture = Fiber_Profiler_Capture_reset(@)]
    ELSE w

\* The second half: the sampling decision and, if taken, the next window opens
\* at clock reading t2.
NextWindow(w, t2, blocking, draw) ==
    IF Fiber_Profiler_Capture_sample(w.capture, blocking, draw)
    THEN Fiber_Profiler_Capture_resume([w EXCEPT !.capture.switch_time = t2])
    ELSE w

\* Fiber_Profiler_Capture_fiber_switch.
Fiber_Profiler_Capture_fiber_switch(w, t1, t2, blocking, draw) ==
    NextWindow(EndWindow([w EXCEPT !.capture.switches = @ + 1], t1),
               t2, blocking, draw)

\* fiber_switch on a captured window that stalled, when the write of the report
\* raises: the exception leaves the handler from inside print, after the pause,
\* the finish and the stall count, and before the reset and the sampling
\* decision.
Fiber_Profiler_Capture_fiber_switch_raised(w, t1) ==
    PrintRaised(
        [Fiber_Profiler_Capture_pause(w) EXCEPT !.capture =
             [Fiber_Profiler_Capture_finish(@, t1)
                  EXCEPT !.switches = @ + 1, !.stalls = @ + 1]],
        Fiber_Profiler_Time_delta(w.capture.switch_time, t1))

-----------------------------------------------------------------------------
(* The session as constructed, and the host that drives it. *)

\* The options a session is constructed with (Capture_initialize): thresholds
\* in ticks, the sample rate in hundredths, the kind of output (nil, a terminal,
\* any other IO), and whether the first page could be reserved.
StallThresholds == {1, 2}
FilterThresholds == {0, 1, 2}
SampleRates == {0, 50, 100}
Outputs == {"nil", "tty", "io"}

DefaultOptions ==
    [stall |-> 2, filter |-> 1, track |-> TRUE, rate |-> 100, output |-> "io",
     reserved |-> TRUE]

\* The configurations of the model: those that differ from the default in at
\* most MaxOptions options, and those without track_calls that differ in one
\* option more (a session without track_calls takes no events).
Options ==
    {o \in [stall : StallThresholds, filter : FilterThresholds, track : BOOLEAN,
            rate : SampleRates, output : Outputs, reserved : BOOLEAN] :
        Cardinality({k \in DOMAIN o : o[k] # DefaultOptions[k]})
            <= MaxOptions + (IF o.track THEN 0 ELSE 1)}

\* The events and identities the host delivers to the callback.  resume
\* registers the callback for call, return, c-call, c-return, b-call, b-return
\* and the two GC events (capture.c:495-506); the line event is not registered.
Events == {"call", "return"}
Ids == {"foo"}

\* Fiber_Profiler_Capture_allocate followed by Fiber_Profiler_Capture_initialize.
Fiber_Profiler_Capture_allocate(o) ==
    [stall_threshold |-> o.stall, track_calls |-> o.track, sample_rate |-> o.rate,
     filter_threshold |-> o.filter, output |-> o.output,
     switches |-> 0, samples |-> 0, stalls |-> 0,
     running |-> FALSE, thread |-> "nil", capture |-> FALSE,
     start_time |-> 0, switch_time |-> 0,
     nesting |-> 0, nesting_minimum |-> 0, current |-> NULL,
     calls |-> Fiber_Profiler_Deque_reserve_default(
                   Fiber_Profiler_Deque_initialize, o.reserved)]

\* What the last operation observed: the clock it read, what it returned or
\* which event it was, the window duration a fiber switch computed, the document
\* it wrote, whether it found the session capturing, with how many frames,
\* stalls and print calls, and what a fiber switch read from Fiber#blocking?
\* and rand().
NoOp == [op |-> "none", time |-> 0, result |-> "none", duration |-> 0,
         document |-> NoDocument, capturing |-> FALSE, frames |-> 0,
         stalls |-> 0, prints |-> 0, blocking |-> FALSE, draw |-> 0]

\* The operation as it finds the session.
Op(op, t) ==
    [NoOp EXCEPT !.op = op, !.time = t, !.capturing = capture.capture,
                 !.frames = Len(Fiber_Profiler_Deque_each(capture.calls)),
                 !.stalls = capture.stalls, !.prints = io.prints]

\* No scripted scenario.
NoScript == [lead |-> FALSE, orphans |-> 0, steps |-> <<>>]

InitHost ==
    /\ now = 0
    /\ hooks = [callback |-> 0, gc |-> 0, fiber_switch |-> 0]
    /\ io = [prints |-> 0, renders |-> 0, writes |-> 0, stderr |-> 0,
             staged |-> 0]
    /\ last_op = NoOp
    /\ window = <<>>
    /\ crashed = FALSE

Init ==
    /\ \E o \in Options : capture = Fiber_Profiler_Capture_allocate(o)
    /\ InitHost
    /\ deque = Fiber_Profiler_Deque_initialize
    /\ trace = <<>>
    /\ script = NoScript

\* The clock readings an operation can see next.
Ticks(from) == from..Min(from + MaxTick, MaxTime)

\* The session after a handler returned the world w.
Returned(w) ==
    /\ capture' = w.capture
    /\ hooks' = w.hooks
    /\ io' = w.io

\* The program calls start at clock reading t.
DoStart(t) ==
    /\ ~crashed
    /\ now' = t
    /\ Returned(Fiber_Profiler_Capture_start(World, t))
    /\ last_op' = [Op("start", t) EXCEPT
                       !.result = IF capture.running THEN "false" ELSE "self"]
    /\ window' = IF capture.running THEN window ELSE <<>>
    /\ UNCHANGED crashed

\* The program calls stop.
DoStop ==
    /\ ~crashed
    /\ Returned(Fiber_Profiler_Capture_stop(World))
    /\ last_op' = [Op("stop", now) EXCEPT
                       !.result = IF capture.running THEN "self" ELSE "false"]
    /\ window' = IF capture.running THEN <<>> ELSE window
    /\ UNCHANGED <<now, crashed>>

\* The host delivers a fiber switch to the registered hook.
DoFiberSwitch(t1, t2, blocking, draw) ==
    /\ ~crashed
    /\ hooks.fiber_switch > 0
    /\ now' = t2
    /\ \E w \in {Fiber_Profiler_Capture_fiber_switch(World, t1, t2, blocking, draw)} :
           /\ Returned(w)
           /\ last_op' = [Op("fiber_switch", t1) EXCEPT
                  !.result = IF capture.capture THEN "captured" ELSE "paused",
                  !.duration = Fiber_Profiler_Time_delta(capture.switch_time, t1),
                  !.document = w.document,
                  !.blocking = blocking, !.draw = draw]
    /\ window' = <<>>
    /\ UNCHANGED crashed

\* The host delivers a fiber switch that ends a stalled window, and the output
\* raises when the report is written to it.
DoFiberSwitchRaised(t1) ==
    /\ ~crashed
    /\ hooks.fiber_switch > 0
    /\ capture.capture
    /\ capture.output # "nil"
    /\ Fiber_Profiler_Time_delta(capture.switch_time, t1) > capture.stall_threshold
    /\ now' = t1
    /\ Returned(Fiber_Profiler_Capture_fiber_switch_raised(World, t1))
    /\ last_op' = [Op("fiber_switch", t1) EXCEPT
           !.result = "raised",
           !.duration = Fiber_Profiler_Time_delta(capture.switch_time, t1)]
    /\ UNCHANGED <<window, crashed>>

\* The host delivers a call or return event to the registered hook.
DoEvent(event_flag, id, t, malloc_ok) ==
    /\ ~crashed
    /\ IF event_flag \in GCEvents THEN hooks.gc > 0 ELSE hooks.callback > 0
    /\ now' = t
    /\ IF CallbackFaults(capture, event_flag, malloc_ok)
       THEN /\ crashed' = TRUE
            /\ last_op' = [Op("fault", t) EXCEPT !.result = event_flag]
            /\ UNCHANGED <<capture, hooks, io, window>>
       ELSE /\ capture' = Fiber_Profiler_Capture_callback(
                              capture, event_flag, id, t, malloc_ok)
            /\ last_op' = [Op("event", t) EXCEPT !.result = event_flag]
            /\ window' = IF capture.capture THEN Append(window, event_flag)
                         ELSE window
            /\ UNCHANGED <<hooks, io, crashed>>

Start ==
    /\ DoStart(now)
    /\ UNCHANGED <<deque, trace, script>>

Stop ==
    /\ DoStop
    /\ UNCHANGED <<deque, trace, script>>

FiberSwitch ==
    /\ capture.switches < MaxSwitches
    /\ \E t1 \in Ticks(now) :
           \E t2 \in t1..Min(t1 + 1, MaxTime), blocking \in BOOLEAN,
              draw \in 0..RAND_MAX :
               DoFiberSwitch(t1, t2, blocking, draw)
    /\ UNCHANGED <<deque, trace, script>>

\* The model stops delivering events after MaxEvents in a window, after the
\* last fiber switch of the behaviour, and where the arena would need more than
\* MaxPages pages.
Event ==
    /\ Len(window) < MaxEvents
    /\ capture.switches < MaxSwitches
    /\ \E event_flag \in Events, id \in Ids, t \in Ticks(now),
          malloc_ok \in BOOLEAN :
           /\ CallbackPushes(capture, event_flag)
                  /\ DequePushAllocates(capture.calls) /\ malloc_ok
                  => Len(capture.calls.pages) < MaxPages
           /\ DoEvent(event_flag, id, t, malloc_ok)
    /\ UNCHANGED <<deque, trace, script>>

Next == Start \/ Stop \/ FiberSwitch \/ Event

Spec == Init /\ [][Next]_vars

\* The same host with an output whose write can raise (a closed IO, a full
\* device).
FiberSwitchRaised ==
    /\ capture.switches < MaxSwitches
    /\ \E t1 \in Ticks(now) : DoFiberSwitchRaised(t1)
    /\ UNCHANGED <<deque, trace, script>>

NextSink == Start \/ Stop \/ FiberSwitch \/ Event \/ FiberSwitchRaised

SpecSink == Init /\ [][NextSink]_vars

\* The same host when the callback is also handed events that are neither
\* call- nor return-class, as with the line event of capture.c:498 enabled.
OtherEvents == {"line"}

LineEvent ==
    /\ Len(window) < MaxEvents
    /\ capture.switches < MaxSwitches
    /\ \E event_flag \in OtherEvents, id \in Ids, t \in Ticks(now),
          malloc_ok \in BOOLEAN :
           /\ CallbackPushes(capture, event_flag)
                  /\ DequePushAllocates(capture.calls) /\ malloc_ok
                  => Len(capture.calls.pages) < MaxPages
           /\ DoEvent(event_flag, id, t, malloc_ok)
    /\ UNCHANGED <<deque, trace, script>>

NextLine == Start \/ Stop \/ FiberSwitch \/ Event \/ LineEvent

SpecLine == Init /\ [][NextLine]_vars

\* The same host with a session constructed from an option value outside its
\* range: Capture_initialize converts each option with NUM2DBL and stores it.
InvalidOptions ==
    {[DefaultOptions EXCEPT !.stall = -1],
     [DefaultOptions EXCEPT !.filter = -1],
     [DefaultOptions EXCEPT !.rate = -50],
     [DefaultOptions EXCEPT !.rate = 150]}

InitInvalid ==
    /\ \E o \in InvalidOptions : capture = Fiber_Profiler_Capture_allocate(o)
    /\ InitHost
    /\ deque = Fiber_Profiler_Deque_initialize
    /\ trace = <<>>
    /\ script = NoScript

SpecInvalid == InitInvalid /\ [][Next]_vars

-----------------------------------------------------------------------------
(* A scripted host: start, an optional fiber switch that opens the window,   *)
(* orphan returns, then call(foo), call(bar), return(bar), return(foo) and   *)
(* the fiber switch that ends the window.  One tick is a millisecond.        *)

ScenarioTimes ==
    [open |-> 0, foo_call |-> 0, bar_call |-> 1, bar_return |-> 20,
     foo_return |-> 21, switch |-> 21]

\* stall_threshold is 0.01 s; the filter is off or above bar's duration.
ScenarioOptions ==
    {[DefaultOptions EXCEPT !.stall = 10, !.filter = f, !.output = o] :
         f \in {0, 20}, o \in {"io", "tty"}}

Step(op, event_flag, id, t) ==
    [op |-> op, event_flag |-> event_flag, id |-> id, time |-> t]

Scenario(lead, orphans) ==
    <<Step("start", "none", "none", ScenarioTimes.open)>>
    \o (IF lead
        THEN <<Step("fiber_switch", "none", "none", ScenarioTimes.open)>>
        ELSE <<>>)
    \o [i \in 1..orphans |-> Step("event", "return", "orphan", ScenarioTimes.open)]
    \o <<Step("event", "call", "foo", ScenarioTimes.foo_call),
         Step("event", "call", "bar", ScenarioTimes.bar_call),
         Step("event", "return", "bar", ScenarioTimes.bar_return),
         Step("event", "return", "foo", ScenarioTimes.foo_return),
         Step("fiber_switch", "none", "none", ScenarioTimes.switch)>>

InitScenario ==
    /\ \E o \in ScenarioOptions : capture = Fiber_Profiler_Capture_allocate(o)
    /\ InitHost
    /\ deque = Fiber_Profiler_Deque_initialize
    /\ trace = <<>>
    /\ \E lead \in BOOLEAN, orphans \in 0..MaxOrphans :
           script = [lead |-> lead, orphans |-> orphans,
                     steps |-> Scenario(lead, orphans)]

ScriptNext(op) ==
    /\ script.steps # <<>>
    /\ Head(script.steps).op = op
    /\ script' = [script EXCEPT !.steps = Tail(@)]
    /\ UNCHANGED <<deque, trace>>

ScriptStart ==
    /\ ScriptNext("start")
    /\ DoStart(Head(script.steps).time)

\* The switch is to a non-blocking fiber.
ScriptFiberSwitch ==
    /\ ScriptNext("fiber_switch")
    /\ DoFiberSwitch(Head(script.steps).time, Head(script.steps).time, FALSE, 0)

\* An event reaches the callback only through a registered hook.
ScriptEvent ==
    /\ ScriptNext("event")
    /\ IF hooks.callback > 0
       THEN DoEvent(Head(script.steps).event_flag, Head(script.steps).id,
                    Head(script.steps).time, TRUE)
       ELSE /\ now' = Head(script.steps).time
            /\ last_op' = [Op("undelivered", Head(script.steps).time)
                               EXCEPT !.result = Head(script.steps).event_flag]
            /\ UNCHANGED <<capture, hooks, io, window, crashed>>

NextScenario == ScriptStart \/ ScriptFiberSwitch \/ ScriptEvent

SpecScenario == InitScenario /\ [][NextScenario]_vars

-----------------------------------------------------------------------------
(* The arena on its own: pushes, pops and truncates of one deque. *)

\* What an operation on the deque returned and left behind.
Traced(op, result, finalized) ==
    [op |-> op, element |-> result.element, finalized |-> finalized,
     memory_size |-> Fiber_Profiler_Deque_memory_size(result.deque),
     allocations |-> result.deque.allocations,
     live |-> Len(Fiber_Profiler_Deque_each(result.deque))]

InitDeque ==
    /\ capture = Fiber_Profiler_Capture_allocate(DefaultOptions)
    /\ InitHost
    /\ deque = Fiber_Profiler_Deque_initialize
    /\ trace = <<>>
    /\ script = NoScript

\* The arena has been released; nothing is done with it afterwards.
Released == trace # <<>> /\ trace[Len(trace)].op = "free"

Operated(op, result, finalized) ==
    /\ deque' = result.deque
    /\ trace' = Append(trace, Traced(op, result, finalized))
    /\ UNCHANGED <<capture, now, hooks, io, last_op, window, crashed, script>>

Push ==
    /\ Len(trace) < MaxOps
    /\ ~Released
    /\ \E malloc_ok \in BOOLEAN :
           Operated("push", Fiber_Profiler_Deque_push(deque, malloc_ok), <<>>)

Pop ==
    /\ Len(trace) < MaxOps
    /\ ~Released
    /\ Operated("pop", Fiber_Profiler_Deque_pop(deque), PopFinalized(deque))

Truncate ==
    /\ Len(trace) < MaxOps
    /\ ~Released
    /\ Operated("truncate",
                [deque |-> Fiber_Profiler_Deque_truncate(deque), element |-> NULL],
                TruncateFinalized(deque))

Free ==
    /\ Len(trace) < MaxOps
    /\ ~Released
    /\ Operated("free",
                [deque |-> Fiber_Profiler_Deque_free(deque), element |-> NULL],
                FreeFinalized(deque))

NextDeque == Push \/ Pop \/ Truncate \/ Free

SpecDeque == InitDeque /\ [][NextDeque]_vars

-----------------------------------------------------------------------------
(* Properties of the session. *)

\* The live frames of the session's arena, in each() order.
Frames == Fiber_Profiler_Deque_each(capture.calls)

\* The frames a document shows, in order.
ReportedFrames(document) ==
    IF document.kind = "tty"
    THEN SelectSeq(document.calls, LAMBDA r : r.line = "call")
    ELSE IF document.kind = "json" THEN document.calls
    ELSE <<>>

\* A step in which a fiber switch reaches a capturing session.
EndsWindow ==
    /\ capture'.switches = capture.switches + 1
    /\ capture.capture

\* C1: at a fiber switch that ends a captured window, if the time since the
\* switch that opened the window is strictly greater than stall_threshold then
\* stalls goes up by exactly 1 and Fiber_Profiler_Capture_print is invoked
\* exactly once (it renders one document unless the session has no output);
\* otherwise stalls is unchanged and nothing is printed or rendered.
C1_StallTrigger ==
    [][EndsWindow =>
          IF last_op'.time - capture.switch_time > capture.stall_threshold
          THEN /\ capture'.stalls = capture.stalls + 1
               /\ io'.prints = io.prints + 1
               /\ io'.renders = io.renders + (IF capture.output = "nil" THEN 0 ELSE 1)
               /\ (capture.output # "nil") = (last_op'.document # NoDocument)
          ELSE /\ capture'.stalls = capture.stalls
               /\ io' = io
               /\ last_op'.document = NoDocument]_vars

\* A window that stalled has been ended and reported.
C1_StalledWindowReported ==
    /\ last_op.op = "fiber_switch"
    /\ last_op.capturing
    /\ last_op.duration > capture.stall_threshold
    /\ capture.stalls = 1
    /\ io.renders = 1
    /\ last_op.document # NoDocument

\* The report the end-to-end example expects: one stall, one report, with
\* exactly the frames foo and bar, their durations, and bar one level below foo.
EndToEndReport ==
    /\ capture.stalls = 1
    /\ io.prints = 1
    /\ io.writes = 1
    /\ Len(ReportedFrames(last_op.document)) = 2
    /\ ReportedFrames(last_op.document)[1].method = "foo"
    /\ ReportedFrames(last_op.document)[1].duration
           = ScenarioTimes.foo_return - ScenarioTimes.foo_call
    /\ ReportedFrames(last_op.document)[2].method = "bar"
    /\ ReportedFrames(last_op.document)[2].duration
           = ScenarioTimes.bar_return - ScenarioTimes.bar_call
    /\ ReportedFrames(last_op.document)[2].nesting
           = ReportedFrames(last_op.document)[1].nesting + 1

\* The end-to-end example has run to its end: no orphan returns, the filter off.
EndToEndDone ==
    /\ script.steps = <<>>
    /\ script.orphans = 0
    /\ capture.filter_threshold = 0

RECURSIVE OpenCalls(_, _)
OpenCalls(es, d) ==
    IF es = <<>> THEN d
    ELSE IF Head(es) \in CallEvents THEN OpenCalls(Tail(es), d + 1)
    ELSE OpenCalls(Tail(es), IF d > 0 THEN d - 1 ELSE 0)

\* The orphan returns among the events es, starting with d calls open.
RECURSIVE OrphanReturns(_, _)
OrphanReturns(es, d) ==
    IF es = <<>> THEN 0
    ELSE IF Head(es) \in CallEvents THEN OrphanReturns(Tail(es), d + 1)
    ELSE IF d > 0 THEN OrphanReturns(Tail(es), d - 1)
    ELSE 1 + OrphanReturns(Tail(es), 0)

\* A balanced, properly nested sequence: no orphan return, no call left open.
WellFormed(es) ==
    /\ es # <<>>
    /\ OrphanReturns(es, 0) = 0
    /\ OpenCalls(es, 0) = 0

\* C4: when the events of the window so far end in a well-formed call/return
\* sequence that began with no frame open, then after its last event current is
\* null, the nesting counter is back to what it was when the sequence began
\* (minus the orphan returns before it), and every frame in the arena has a
\* duration >= 0.
C4_WellFormedSequence ==
    \A i \in 0..Len(window) :
        (/\ OpenCalls(SubSeq(window, 1, i), 0) = 0
         /\ WellFormed(SubSeq(window, i + 1, Len(window)))) =>
            /\ capture.current = NULL
            /\ capture.nesting = 0 - OrphanReturns(SubSeq(window, 1, i), 0)
            /\ \A k \in 1..Len(Frames) : Frame(capture, Frames[k]).duration >= 0

\* Two nested calls have returned and left frames behind.
C4_NestedCallsReturned ==
    /\ window = <<"call", "call", "return", "return">>
    /\ capture.current = NULL
    /\ Len(Frames) = 2
    /\ Frame(capture, Frames[1]).duration > 0

\* The frames still open: current and its ancestors.
RECURSIVE OpenFrames(_, _)
OpenFrames(c, call) ==
    IF call = NULL THEN {}
    ELSE {call} \cup OpenFrames(c, Frame(c, call).parent)

\* Every frame of the arena that a call event created and whose return has
\* been processed lasted at least the filter threshold.
ReturnedCallsRetained ==
    \A k \in 1..Len(Frames) :
        (/\ event_flag_call_p(Frame(capture, Frames[k]).event_flag)
         /\ Frames[k] \notin OpenFrames(capture, capture.current)) =>
            Frame(capture, Frames[k]).duration >= capture.filter_threshold

\* A step in which the return event of the open frame `current` is processed.
ReturnsCurrent ==
    /\ last_op'.op = "event"
    /\ last_op'.result \in ReturnEvents
    /\ capture.current # NULL

\* What the filter does to the frame that returns in such a step.
FilterOnReturn(call, parent, duration) ==
    IF duration < capture.filter_threshold
    THEN /\ ~Live(capture'.calls, call)
         /\ Len(Fiber_Profiler_Deque_each(capture'.calls)) = Len(Frames) - 1
         /\ parent # NULL =>
                /\ Frame(capture', parent).filtered
                       = Frame(capture, parent).filtered + 1
                /\ Frame(capture', parent).children
                       = Frame(capture, parent).children - 1
    ELSE /\ Live(capture'.calls, call)
         /\ Frame(capture', call).duration = duration
         /\ parent # NULL =>
                Frame(capture', parent).filtered = Frame(capture, parent).filtered

\* C5: a frame created by a call-class event whose duration is below the
\* filter threshold is removed from the arena when its return event is
\* processed and is never in each() afterwards, and each such removal adds
\* exactly 1 to its parent's filtered counter; a frame at or above the
\* threshold stays and leaves the counter alone.
C5_FilterOnReturn ==
    [][/\ ReturnedCallsRetained'
       /\ ReturnsCurrent =>
              FilterOnReturn(capture.current,
                             Frame(capture, capture.current).parent,
                             last_op'.time
                                 - Frame(capture, capture.current).enter_time)]_vars

\* A frame whose child was filtered on return.
C5_ChildFiltered ==
    /\ last_op.op = "event"
    /\ last_op.result = "return"
    /\ Len(Frames) = last_op.frames - 1
    /\ capture.current # NULL
    /\ Frame(capture, capture.current).filtered = 1

\* C5 as stated: of every frame created in a capturing window, synthesised
\* ones included, none whose return has been processed and whose duration is
\* below the filter threshold is in each().
C5_EveryReturnedFrameRetained ==
    \A k \in 1..Len(Frames) :
        Frames[k] \notin OpenFrames(capture, capture.current) =>
            Frame(capture, Frames[k]).duration >= capture.filter_threshold

\* C6: in a freshly opened window with an empty arena, a single return event
\* with no prior call creates exactly one frame, of the return's class and with
\* no parent, whose duration is the delta from the window's switch time to now;
\* afterwards current is null and nesting and nesting_minimum are both -1.
C6_OrphanReturn ==
    (last_op.op = "event" /\ Len(window) = 1 /\ window[1] \in ReturnEvents) =>
        /\ ~crashed
        /\ Len(Frames) = 1
        /\ Frame(capture, Frames[1]).parent = NULL
        /\ Frame(capture, Frames[1]).event_flag = window[1]
        /\ Frame(capture, Frames[1]).enter_time = last_op.time
        /\ Frame(capture, Frames[1]).duration
               = last_op.time - capture.switch_time
        /\ capture.current = NULL
        /\ capture.nesting = -1
        /\ capture.nesting_minimum = -1

\* An orphan return has been recorded some time after the window opened and
\* the session started.
C6_OrphanRecorded ==
    /\ last_op.op = "event"
    /\ window = <<"return">>
    /\ Len(Frames) = 1
    /\ capture.start_time < capture.switch_time
    /\ Frame(capture, Frames[1]).duration > 0

\* C7: for call(A), call(B), return(B), return(A) in a capturing window, with
\* A = foo and B = bar, and k >= 0 orphan returns before them in the same
\* window: A is recorded with nesting -k and B with nesting 1 - k (0 and 1
\* when there is none), and the report shows A at absolute nesting 0 and B at
\* absolute nesting 1 for every k.
C7_Nesting ==
    /\ script.lead =>
           \A i \in 1..Len(Frames) :
               /\ Frame(capture, Frames[i]).id = "foo" =>
                      Frame(capture, Frames[i]).nesting = 0 - script.orphans
               /\ Frame(capture, Frames[i]).id = "bar" =>
                      Frame(capture, Frames[i]).nesting = 1 - script.orphans
    /\ (script.lead /\ script.steps = <<>>) =>
           /\ Len(SelectSeq(ReportedFrames(last_op.document),
                            LAMBDA r : r.method = "foo")) = 1
           /\ capture.filter_threshold = 0 =>
                  Len(SelectSeq(ReportedFrames(last_op.document),
                                LAMBDA r : r.method = "bar")) = 1
           /\ \A i \in 1..Len(ReportedFrames(last_op.document)) :
                  /\ ReportedFrames(last_op.document)[i].method = "foo" =>
                         ReportedFrames(last_op.document)[i].nesting = 0
                  /\ ReportedFrames(last_op.document)[i].method = "bar" =>
                         ReportedFrames(last_op.document)[i].nesting = 1

\* A report of foo and bar after orphan returns.
C7_ReportedAfterOrphans ==
    /\ script.lead
    /\ script.steps = <<>>
    /\ script.orphans >= 1
    /\ Len(ReportedFrames(last_op.document)) = script.orphans + 2
    /\ ReportedFrames(last_op.document)[script.orphans + 1].method = "foo"
    /\ ReportedFrames(last_op.document)[script.orphans + 1].nesting = 0
    /\ ReportedFrames(last_op.document)[script.orphans + 2].method = "bar"
    /\ ReportedFrames(last_op.document)[script.orphans + 2].nesting = 1

-----------------------------------------------------------------------------
(* Properties of the arena. *)

\* Operations i .. j of the trace are all pushes that returned a slot.
Pushes(i, j) ==
    \A k \in i..j : trace[k].op = "push" /\ trace[k].element # NULL

\* C8: for any N >= 1, after N pushes followed by truncate, memory_size is what
\* it was just before the truncate and is not zero, and the pushes that follow,
\* up to N of them, all return a slot, allocate no page and leave as many live
\* elements as there were pushes: N after the N-th.
C8_TruncateRetainsPages ==
    \A i \in 1..Len(trace), n \in 1..Len(trace) :
        (/\ i + n <= Len(trace)
         /\ Pushes(i, i + n - 1)
         /\ trace[i + n].op = "truncate") =>
            /\ trace[i + n].memory_size = trace[i + n - 1].memory_size
            /\ trace[i + n].memory_size # 0
            /\ trace[i + n].allocations = trace[i + n - 1].allocations
            /\ trace[i + n].live = 0
            /\ \A m \in 1..n :
                   (/\ i + n + m <= Len(trace)
                    /\ \A k \in (i + n + 1)..(i + n + m) : trace[k].op = "push") =>
                       /\ trace[i + n + m].element # NULL
                       /\ trace[i + n + m].allocations = trace[i + n].allocations
                       /\ trace[i + n + m].memory_size = trace[i + n].memory_size
                       /\ trace[i + n + m].live = m

\* More pushes than a page holds, a truncate, and as many pushes again.
C8_PagesReused ==
    /\ Len(trace) = 2 * (PageCapacity + 1) + 1
    /\ Pushes(1, PageCapacity + 1)
    /\ trace[PageCapacity + 2].op = "truncate"
    /\ Pushes(PageCapacity + 3, Len(trace))
    /\ trace[Len(trace)].live = PageCapacity + 1
    /\ trace[Len(trace)].allocations = 2

\* C9: no event delivery faults; in particular an event whose frame needs a
\* page that cannot be allocated is dropped without a NULL dereference.
C9_AllocationFailureDropsEvent == ~crashed

\* C10: after stop() returns self, from capturing or paused, the session is
\* idle: not running, not capturing, no call/return, GC or fiber-switch hook
\* registered, no live frame in the arena, and current is null.
C10_StopLeavesIdle ==
    (last_op.op = "stop" /\ last_op.result = "self") =>
        /\ ~capture.running
        /\ ~capture.capture
        /\ hooks = [callback |-> 0, gc |-> 0, fiber_switch |-> 0]
        /\ Frames = <<>>
        /\ capture.current = NULL
        /\ capture.nesting = 0
        /\ capture.nesting_minimum = 0

\* stop() has returned from a capturing session with frames open.
C10_StoppedWhileCapturing ==
    /\ last_op.op = "stop"
    /\ last_op.result = "self"
    /\ last_op.capturing
    /\ last_op.frames > 0
    /\ ~capture.running

\* C11: a captured window closed by stop() is finalized like one closed by a
\* fiber switch: when it has lasted longer than stall_threshold it is counted as
\* a stall and handed to the report.
C11_StopFinalizesWindow ==
    (/\ last_op.op = "stop"
     /\ last_op.result = "self"
     /\ last_op.capturing
     /\ Fiber_Profiler_Time_delta(capture.switch_time, now) > capture.stall_threshold)
        => /\ capture.stalls = last_op.stalls + 1
           /\ io.prints = last_op.prints + 1

\* C12: after every fiber switch that the handler processed to its end while
\* running, the session is paused if the fiber switched to is blocking;
\* otherwise it is capturing when sample_rate >= 1, and when sample_rate < 1 it
\* is capturing exactly if rand() < RAND_MAX * sample_rate, so never at
\* sample_rate 0.  Whether the window that ended was captured or stalled plays
\* no part.  The call/return hook is attached exactly when the session is
\* capturing with track_calls.
C12_SamplingDecision ==
    (last_op.op = "fiber_switch" /\ last_op.result # "raised") =>
        /\ last_op.blocking => ~capture.capture
        /\ (~last_op.blocking /\ capture.sample_rate >= 100) => capture.capture
        /\ (~last_op.blocking /\ capture.sample_rate < 100) =>
               (capture.capture <=>
                    last_op.draw * 100 < RAND_MAX * capture.sample_rate)
        /\ capture.sample_rate = 0 => ~capture.capture
        /\ hooks.callback > 0 <=> (capture.capture /\ capture.track_calls)

\* A fiber switch at sample_rate 0.5 ended a captured window that stalled, and
\* the draw opened the next one.
C12_SampledAfterStall ==
    /\ last_op.op = "fiber_switch"
    /\ last_op.capturing
    /\ capture.stalls = last_op.stalls + 1
    /\ capture.sample_rate = 50
    /\ ~last_op.blocking
    /\ capture.capture

\* C13: whenever the session is idle or running and paused, the arena has no
\* live frame, current is null and nesting = nesting_minimum = 0; so every
\* frame of a window was created by an event of that window.
C13_PausedIsEmpty ==
    /\ ~capture.capture =>
           /\ Frames = <<>>
           /\ capture.current = NULL
           /\ capture.nesting = 0
           /\ capture.nesting_minimum = 0
    /\ capture.capture => Len(Frames) <= Len(window)

\* C14: a session constructed with a negative stall or filter threshold, or a
\* sample rate outside [0, 1], is rejected at construction and never runs.
C14_InvalidRejected ==
    (\/ capture.stall_threshold < 0
     \/ capture.filter_threshold < 0
     \/ capture.sample_rate < 0
     \/ capture.sample_rate > 100)
        => ~capture.running

\* C15: when the write of a stall report raises out of the fiber-switch
\* handler, only that report is lost: the arena is truncated, current and
\* nesting are reset and the staging stream is rewound.
C15_WriteFailureLosesOnlyReport ==
    (last_op.op = "fiber_switch" /\ last_op.result = "raised") =>
        /\ Frames = <<>>
        /\ capture.current = NULL
        /\ capture.nesting = 0
        /\ io.staged = 0

\* C16: each stall counted on a session with an output results in exactly one
\* write to that output, which carries the whole report: the stream is rendered
\* once per write, and no part of a report goes to any other destination, for
\* the JSON and for the terminal renderer.
C16_OneWriteToSink ==
    /\ capture.output # "nil" =>
           /\ io.writes = capture.stalls
           /\ io.renders = io.writes
    /\ capture.output = "nil" => io.writes = 0
    /\ io.stderr = 0

Removable(k) ==
    /\ ~event_flag_return_p(Frame(capture, Frames[k]).event_flag)
    /\ Frame(capture, Frames[k]).duration < capture.filter_threshold
    /\ k = Len(Frames)

\* What Call_finish made of the session when applied to the frame at k.
FilterStep(k, after) ==
    IF Removable(k)
    THEN /\ ~Live(after.calls, Frames[k])
         /\ Fiber_Profiler_Deque_each(after.calls) = SubSeq(Frames, 1, k - 1)
    ELSE after = capture

\* C18: Call_finish removes a frame if and only if its event is not
\* return-class, its duration is strictly less than filter_threshold and it is
\* the arena's tail; otherwise it changes nothing.  So a return-class (orphan)
\* frame, a frame whose duration equals the threshold and a non-tail frame are
\* kept, and with filter_threshold = 0 nothing is removed.
C18_FilterStep ==
    /\ \A k \in 1..Len(Frames) :
           FilterStep(k, Fiber_Profiler_Capture_Call_finish(capture, Frames[k]))
    /\ (capture.filter_threshold = 0 /\ last_op.op = "event") =>
           Len(Frames) >= last_op.frames

\* The filter has just removed a returned frame, and the arena holds a short
\* call frame that is not the tail.
C18_ShortFrameBelowTail ==
    /\ last_op.op = "event"
    /\ last_op.result \in ReturnEvents
    /\ Len(Frames) < last_op.frames
    /\ Len(Frames) >= 2
    /\ ~Removable(1)
    /\ event_flag_call_p(Frame(capture, Frames[1]).event_flag)
    /\ Frame(capture, Frames[1]).duration < capture.filter_threshold

\* The live frames of a session, and those of a set S whose parent is h.
FrameSet(c) ==
    {Fiber_Profiler_Deque_each(c.calls)[k] :
         k \in DOMAIN Fiber_Profiler_Deque_each(c.calls)}

ChildrenOf(c, S, h) == Cardinality({x \in S : Frame(c, x).parent = h})

\* The counters of the frames that stay, when the frames `removed` leave the
\* arena and the frames `added` enter it.
CountersKept(before, after, removed, added) ==
    /\ \A h \in FrameSet(before) \cap FrameSet(after) :
           /\ Frame(after, h).filtered
                  = Frame(before, h).filtered + ChildrenOf(before, removed, h)
           /\ Frame(after, h).children
                  = Frame(before, h).children + ChildrenOf(after, added, h)
                        - ChildrenOf(before, removed, h)
    /\ \A a \in added :
           /\ Frame(after, a).filtered = 0
           /\ Frame(after, a).children = 0

\* The number of frames elided before record i of a JSON document.
RECURSIVE JsonSkipped(_, _)
JsonSkipped(calls, i) ==
    IF i = 0 THEN 0 ELSE JsonSkipped(calls, i - 1) + calls[i].skipped

\* The frames a terminal document shows, from line n on.
RECURSIVE TtyShown(_, _, _, _)
TtyShown(lines, n, skipped, out) ==
    IF n > Len(lines) THEN out
    ELSE IF lines[n].line = "skipped"
    THEN TtyShown(lines, n + 1, skipped + lines[n].count, out)
    ELSE IF lines[n].line = "call"
    THEN TtyShown(lines, n + 1, skipped,
                  Append(out,
                         [position |-> Len(out) + 1 + skipped,
                          duration |-> lines[n].duration,
                          offset |-> lines[n].offset,
                          filtered |->
                              IF n < Len(lines) /\ lines[n + 1].line = "filtered"
                              THEN lines[n + 1].count ELSE 0]))
    ELSE TtyShown(lines, n + 1, skipped, out)

\* The frames a document shows: the position in the arena of each, and the
\* duration, offset and filtered count the document gives for it.
Shown(document) ==
    IF document.kind = "json"
    THEN [i \in 1..Len(document.calls) |->
              [position |-> i + JsonSkipped(document.calls, i),
               duration |-> document.calls[i].duration,
               offset |-> document.calls[i].offset,
               filtered |-> document.calls[i].filtered]]
    ELSE IF document.kind = "tty" THEN TtyShown(document.calls, 1, 0, <<>>)
    ELSE <<>>

\* The number of frames a document accounts for, shown or elided.
Accounted(shown, document) ==
    IF shown = <<>> THEN document.skipped
    ELSE shown[Len(shown)].position + document.skipped

\* The filtered counts of a report are those of the frames as the end of the
\* window leaves them: the frames after the first n were removed by the filter.
FilteredShown(shown, n) ==
    \A i \in 1..Len(shown) :
        shown[i].filtered
            = Frame(capture, Frames[shown[i].position]).filtered
                  + ChildrenOf(capture,
                               {Frames[k] : k \in (n + 1)..Len(Frames)},
                               Frames[shown[i].position])

\* A step that writes a report.
Reports ==
    /\ last_op'.op = "fiber_switch"
    /\ last_op'.document.kind # "none"

\* Every frame's children is the number of live frames whose parent it is.
ChildrenCounted ==
    \A h \in FrameSet(capture) :
        Frame(capture, h).children = ChildrenOf(capture, FrameSet(capture), h)

\* C19: for every live frame F, F.children is the number of live frames whose
\* parent is F, and F.filtered is the number of F's direct children that the
\* filter removed in this window: a new frame starts at 0, each removal adds 1
\* to its parent's filtered and takes 1 from its children, and no other frame's
\* counters change.  The filtered value a report shows for a frame is that
\* count.
C19_Counters ==
    /\ []ChildrenCounted
    /\ [][/\ CountersKept(capture, capture',
                          FrameSet(capture) \ FrameSet(capture'),
                          FrameSet(capture') \ FrameSet(capture))
          /\ Reports =>
                 FilteredShown(Shown(last_op'.document),
                               Accounted(Shown(last_op'.document),
                                         last_op'.document))]_vars

\* A report shows a frame with a filtered child.
C19_FilteredReported ==
    /\ last_op.op = "fiber_switch"
    /\ last_op.document.kind # "none"
    /\ \E i \in 1..Len(Shown(last_op.document)) :
           Shown(last_op.document)[i].filtered > 0

\* The duration the end of the window at clock reading t1 gives the frame at
\* position k: a frame still open is force-closed at t1.
ClosedDuration(k, t1) ==
    IF Frames[k] \in OpenFrames(capture, capture.current)
    THEN Fiber_Profiler_Time_delta(Frame(capture, Frames[k]).enter_time, t1)
    ELSE Frame(capture, Frames[k]).duration

\* What a report written at the end of a window shows of the arena the fiber
\* switch found: the first n frames, each with its closed duration; the frames
\* after them were removed by the filter.
ReportedAfterFinish(shown, n, t1) ==
    /\ n <= Len(Frames)
    /\ \A i \in 1..Len(shown) :
           shown[i].duration = ClosedDuration(shown[i].position, t1)
    /\ \A k \in (n + 1)..Len(Frames) :
           /\ ~event_flag_return_p(Frame(capture, Frames[k]).event_flag)
           /\ ClosedDuration(k, t1) < capture.filter_threshold

\* C20: a fiber switch that ends a captured window pauses, force-closes the
\* open frames, renders the report if the window stalled, truncates the arena
\* and then takes the sampling decision.  So in the report every frame that was
\* open at the switch has duration = switch time - enter time or was removed by
\* the filter, the report holds no frame that the arena did not hold at the
\* switch, it counts this stall but not the sample of the window that follows,
\* and the arena is empty afterwards.
C20_SwitchOrder ==
    [][(last_op'.op = "fiber_switch" /\ last_op'.result = "captured") =>
           /\ Fiber_Profiler_Deque_each(capture'.calls) = <<>>
           /\ Reports =>
                  /\ ReportedAfterFinish(
                         Shown(last_op'.document),
                         Accounted(Shown(last_op'.document), last_op'.document),
                         last_op'.time)
                  /\ last_op'.document.stalls = capture.stalls + 1
                  /\ last_op'.document.samples = capture.samples
                  /\ last_op'.document.switches = capture.switches + 1]_vars

\* A report shows a frame that was force-closed at the switch, while another
\* open frame was removed by the filter.
C20_ForceClosedReported ==
    /\ last_op.op = "fiber_switch"
    /\ last_op.result = "captured"
    /\ last_op.document.kind # "none"
    /\ last_op.frames > Accounted(Shown(last_op.document), last_op.document)
    /\ Len(Shown(last_op.document)) >= 1
    /\ Shown(last_op.document)[1].duration = last_op.duration
    /\ capture.capture

\* A step in which the callback handles an event that is neither call- nor
\* return-class.
HandlesOther ==
    /\ last_op'.op = "event"
    /\ last_op'.result \in OtherEvents
    /\ capture.capture

\* C21: an unclassified event appends one frame whose enter time is that of
\* the previous tail frame, or the window's start when the arena is empty, and
\* leaves the call stack as it was: current and the session's nesting counter
\* are the same before and after the event.
C21_UnclassifiedEvent ==
    [][HandlesOther =>
           /\ Len(Fiber_Profiler_Deque_each(capture'.calls)) = Len(Frames) + 1
           /\ Frame(capture', Fiber_Profiler_Deque_last(capture'.calls)).enter_time
                  = BorrowedTime(capture)
           /\ capture'.nesting = capture.nesting
           /\ capture'.current = capture.current]_vars

\* A step in which the callback handles a call-class event.
HandlesCall ==
    /\ last_op'.op = "event"
    /\ last_op'.result \in CallEvents
    /\ capture.capture

\* C22: every frame created by a call-class event records the session's
\* nesting counter as it was before its increment, and when another frame is
\* current at that moment the new frame's nesting is its parent's nesting + 1,
\* after any sequence of calls, returns, orphan returns and unclassified events.
C22_NestingAtCreation ==
    [][HandlesCall =>
           /\ Frame(capture', capture'.current).nesting = capture.nesting
           /\ capture'.nesting = capture.nesting + 1
           /\ Frame(capture', capture'.current).parent = capture.current
           /\ capture.current # NULL =>
                  Frame(capture', capture'.current).nesting
                      = Frame(capture, capture.current).nesting + 1]_vars

\* C23: for every frame in the arena nesting - nesting_minimum >= 0, after any
\* sequence of events and after the renderer has rewritten the frames'
\* nesting; every nesting a report shows (a frame's, a marker line's) is
\* therefore not negative and the unsigned value does not wrap.
C23_AbsoluteNesting ==
    /\ \A k \in 1..Len(Frames) :
           Fiber_Profiler_Capture_absolute_nesting(capture, Frames[k]) >= 0
    /\ capture.nesting >= capture.nesting_minimum
    /\ last_op.document.kind # "none" =>
           \A i \in 1..Len(last_op.document.calls) :
               last_op.document.calls[i].nesting >= 0

\* A report has been rendered of a window with an orphan return and a call
\* after it, whose frame has a negative stored nesting.
C23_RenderedBelowZero ==
    /\ last_op.op = "fiber_switch"
    /\ last_op.result = "raised"
    /\ capture.nesting_minimum < 0
    /\ \E k \in 1..Len(Frames) : Frame(capture, Frames[k]).nesting < 0

\* C24: while capturing, with call- and return-class events only, the number
\* of open frames (current and its ancestors) is nesting - nesting_minimum,
\* nesting_minimum <= min(0, nesting), and -nesting_minimum is the number of
\* orphan returns the window has seen.
C24_OpenFramesAndNesting ==
    capture.capture =>
        /\ Cardinality(OpenFrames(capture, capture.current))
               = capture.nesting - capture.nesting_minimum
        /\ capture.nesting_minimum <= 0
        /\ capture.nesting_minimum <= capture.nesting
        /\ 0 - capture.nesting_minimum = OrphanReturns(window, 0)
        /\ Cardinality(OpenFrames(capture, capture.current)) = OpenCalls(window, 0)

\* A window with an orphan return, and later two calls still open.
C24_OpenAfterOrphan ==
    /\ capture.capture
    /\ capture.nesting_minimum < 0
    /\ Cardinality(OpenFrames(capture, capture.current)) = 2
    /\ capture.nesting > 0

\* A step in which start() or stop() returns false.
Refused ==
    /\ last_op'.op \in {"start", "stop"}
    /\ last_op'.result = "false"

\* pause() while paused and resume() while capturing return the session as it
\* is, and no hook is registered twice.
PauseResumeIdempotent ==
    /\ ~capture.capture => Fiber_Profiler_Capture_pause(World) = World
    /\ capture.capture => Fiber_Profiler_Capture_resume(World) = World
    /\ Fiber_Profiler_Capture_pause(Fiber_Profiler_Capture_pause(World))
           = Fiber_Profiler_Capture_pause(World)
    /\ Fiber_Profiler_Capture_resume(Fiber_Profiler_Capture_resume(World))
           = Fiber_Profiler_Capture_resume(World)
    /\ hooks.callback \in {0, 1}
    /\ hooks.gc \in {0, 1}
    /\ hooks.fiber_switch \in {0, 1}

\* C25: redundant lifecycle calls are no-ops.  start() on a running session
\* and stop() on an idle one return false and change nothing of the session,
\* its hooks or its output; pause() while paused and resume() while capturing
\* change nothing; samples goes up by one exactly in the fiber switches that
\* leave the session capturing, which resume it from paused, and in no other
\* step; a hook is never registered twice.
C25_RedundantCalls ==
    /\ []PauseResumeIdempotent
    /\ [][/\ Refused =>
                 /\ capture' = capture
                 /\ hooks' = hooks
                 /\ io' = io
                 /\ now' = now
          /\ last_op'.op = "start" =>
                 (last_op'.result = "false" <=> capture.running)
          /\ last_op'.op = "stop" =>
                 (last_op'.result = "false" <=> ~capture.running)
          /\ capture'.samples
                 = capture.samples
                       + (IF last_op'.op = "fiber_switch" /\ capture'.capture
                          THEN 1 ELSE 0)]_vars

\* start() has returned false on a session that is capturing a window with
\* frames in the arena.
C25_StartRefused ==
    /\ last_op.op = "start"
    /\ last_op.result = "false"
    /\ capture.capture
    /\ Frames # <<>>
    /\ capture.samples > 0

\* The frame `call` of the finished window c is one the report elides: it has
\* a child, its parent has no other child, and it lasted more than 0.98 of its
\* parent's duration.
Elided(c, call) ==
    /\ Frame(c, call).children >= 1
    /\ Frame(c, call).parent # NULL
    /\ Frame(c, Frame(c, call).parent).children = 1
    /\ Frame(c, call).duration * 100
           > Frame(c, Frame(c, call).parent).duration * SKIP_THRESHOLD

\* The positions of the frames a document shows.
ShownPositions(shown) == {shown[i].position : i \in 1..Len(shown)}

\* What a JSON document accounts for of the frames F of the finished window c.
JsonAccounts(c, F, document, shown) ==
    /\ Len(document.calls) + JsonSkipped(document.calls, Len(document.calls))
           = Len(F)
    /\ document.skipped = 0
    /\ F # <<>> => Len(F) \in ShownPositions(shown)
    /\ \A k \in 1..Len(F) : k \in ShownPositions(shown) <=> ~Elided(c, F[k])
    /\ \A i \in 1..Len(document.calls) :
           document.calls[i].skipped
               = Cardinality({k \in 1..Len(F) :
                                  /\ Elided(c, F[k])
                                  /\ k < shown[i].position
                                  /\ i > 1 => k > shown[i - 1].position})

\* The window as the forced finish at clock reading t1 leaves it.
Finished(t1) == Fiber_Profiler_Capture_finish(capture, t1)

\* C26: in the structured (JSON) report of a window a frame is elided exactly
\* when it has at least one child, its parent has exactly one child and its
\* duration exceeds 0.98 of its parent's; every live frame is either a record
\* or counted in the skipped field of the next record, so the number of records
\* plus the sum of their skipped fields is the number of live frames; the last
\* frame is always a record and no skip count is left over after it.
C26_JsonElision ==
    [][(Reports /\ last_op'.document.kind = "json") =>
           JsonAccounts(Finished(last_op'.time),
                        Fiber_Profiler_Deque_each(Finished(last_op'.time).calls),
                        last_op'.document,
                        Shown(last_op'.document))]_vars

\* A JSON report with a record that follows an elided frame.
C26_RecordAfterElided ==
    /\ last_op.op = "fiber_switch"
    /\ last_op.document.kind = "json"
    /\ Len(last_op.document.calls) >= 2
    /\ last_op.document.calls[Len(last_op.document.calls)].skipped >= 1
    /\ last_op.frames
           = Len(last_op.document.calls)
                 + JsonSkipped(last_op.document.calls, Len(last_op.document.calls))

\* The plain sequence the arena stands for: one step of it.  A push that
\* returned a slot appends the slot, a pop removes the last entry, a truncate
\* removes them all.
SequenceStep(s, entry) ==
    IF entry.op = "push" THEN
        IF entry.element = NULL THEN s ELSE Append(s, entry.element)
    ELSE IF entry.op = "pop" THEN
        IF s = <<>> THEN s ELSE SubSeq(s, 1, Len(s) - 1)
    ELSE <<>>

\* The plain sequence after the first k operations of the trace.
RECURSIVE SequenceAfter(_)
SequenceAfter(k) ==
    IF k = 0 THEN <<>> ELSE SequenceStep(SequenceAfter(k - 1), trace[k])

\* The last entry of a plain sequence, NULL if it has none.
SequenceLast(s) == IF s = <<>> THEN NULL ELSE s[Len(s)]

\* The arena d holds exactly the plain sequence s.
Holds(d, s) ==
    /\ Fiber_Profiler_Deque_each(d) = s
    /\ \A i, j \in 1..Len(s) : s[i] = s[j] => i = j
    /\ \A i \in 1..Len(s) : Live(d, s[i])
    /\ Fiber_Profiler_Deque_last(d) = SequenceLast(s)

\* C27: the paged arena refines a plain sequence.  After any interleaving of
\* push, pop and truncate, each() visits exactly the elements pushed and not
\* yet removed, once each, in insertion order; last() returns the most recently
\* pushed of them, NULL if there is none, and the arena is as it was; every
\* pop() has returned that element, NULL if there was none, and a further pop()
\* removes exactly it.
C27_RefinesSequence ==
    /\ Holds(deque, SequenceAfter(Len(trace)))
    /\ \A k \in 1..Len(trace) :
           trace[k].op = "pop" =>
               /\ trace[k].element = SequenceLast(SequenceAfter(k - 1))
               /\ trace[k].live = Len(SequenceAfter(k))
    /\ Fiber_Profiler_Deque_pop(deque).element = Fiber_Profiler_Deque_last(deque)
    /\ Holds(Fiber_Profiler_Deque_pop(deque).deque,
             SequenceStep(SequenceAfter(Len(trace)), [op |-> "pop"]))

\* A truncate, then pushes that reuse the first page and fill a second, then a
\* pop that empties the second page and a pop that walks back to the first.
C27_PopAcrossPages ==
    /\ Len(trace) = PageCapacity + 5
    /\ trace[1].op = "push"
    /\ trace[1].element # NULL
    /\ trace[2].op = "truncate"
    /\ Pushes(3, PageCapacity + 3)
    /\ trace[PageCapacity + 3].allocations = 2
    /\ trace[PageCapacity + 4].op = "pop"
    /\ PageOf(trace[PageCapacity + 4].element) = 2
    /\ trace[PageCapacity + 5].op = "pop"
    /\ PageOf(trace[PageCapacity + 5].element) = 1
    /\ Len(Fiber_Profiler_Deque_each(deque)) = PageCapacity - 1

\* How many times the slot h occurs in the sequence s.
Occurrences(s, h) == Cardinality({i \in 1..Len(s) : s[i] = h})

\* The first operation after the push k that removes the element pushed by k:
\* the first that leaves the plain sequence shorter than the push left it.
\* Len(trace) + 1 while the element is live.
RemovedAt(k) ==
    IF \E j \in (k + 1)..Len(trace) :
           Len(SequenceAfter(j)) < Len(SequenceAfter(k))
    THEN CHOOSE j \in (k + 1)..Len(trace) :
             /\ Len(SequenceAfter(j)) < Len(SequenceAfter(k))
             /\ \A m \in (k + 1)..(j - 1) :
                    Len(SequenceAfter(m)) >= Len(SequenceAfter(k))
    ELSE Len(trace) + 1

\* The element pushed by operation k is finalized by the operation that
\* removes it, once, and by none while it is live.
FinalizedOnce(k) ==
    \A j \in (k + 1)..Len(trace) :
        j <= RemovedAt(k) =>
            Occurrences(trace[j].finalized, trace[k].element)
                = (IF j = RemovedAt(k) THEN 1 ELSE 0)

\* Operation k finalizes as many elements as it removes, and a push none.
FinalizesRemoved(k) ==
    Len(trace[k].finalized)
        = (IF trace[k].op = "push" THEN 0
           ELSE Len(SequenceAfter(k - 1)) - Len(SequenceAfter(k)))

FinalizerInvocations ==
    \A k \in 1..Len(trace) :
        /\ FinalizesRemoved(k)
        /\ (trace[k].op = "push" /\ trace[k].element # NULL) => FinalizedOnce(k)
        /\ trace[k].op = "free" => SequenceAfter(k) = <<>>

\* The step keeps every page where it is and every slot that is live before and
\* after it as it was.
PagesKept ==
    /\ Len(deque'.pages) >= Len(deque.pages)
    /\ deque'.head = (IF deque.head = NULL /\ deque'.pages # <<>> THEN 1
                      ELSE deque.head)
    /\ \A p \in 1..Len(deque.pages) :
           /\ deque'.pages[p].capacity = deque.pages[p].capacity
           /\ deque'.pages[p].head = deque.pages[p].head
           /\ deque.pages[p].tail # NULL =>
                  deque'.pages[p].tail = deque.pages[p].tail
    /\ Fiber_Profiler_Deque_memory_size(deque')
           >= Fiber_Profiler_Deque_memory_size(deque)
    /\ \A h \in 1..(MaxPages * PageCapacity) :
           (Live(deque, h) /\ Occurrences(trace'[Len(trace')].finalized, h) = 0) =>
               /\ Live(deque', h)
               /\ Fiber_Profiler_Deque_Page_get(deque', h)
                      = Fiber_Profiler_Deque_Page_get(deque, h)

\* C28: every element pushed into the arena has its finalizer invoked exactly
\* once, by the pop, truncate or arena-free that removes it, never while it is
\* live and never a second time, and the arena-free leaves none; push, pop and
\* truncate free or move no page, so a slot returned by push stays valid, with
\* its contents, until its element is removed.
C28_FinalizedOnce ==
    /\ []FinalizerInvocations
    /\ [][trace'[Len(trace')].op # "free" => PagesKept]_vars

\* Three pushes over two pages, a pop that finalizes the third element, a
\* truncate that finalizes the other two, a push that reuses the first slot, and
\* the arena-free that finalizes it.
C28_FreedAfterReuse ==
    /\ Len(trace) = PageCapacity + 5
    /\ Pushes(1, PageCapacity + 1)
    /\ trace[PageCapacity + 2].op = "pop"
    /\ trace[PageCapacity + 2].finalized = <<Handle(2, 1)>>
    /\ trace[PageCapacity + 3].op = "truncate"
    /\ Len(trace[PageCapacity + 3].finalized) = PageCapacity
    /\ Pushes(PageCapacity + 4, PageCapacity + 4)
    /\ trace[PageCapacity + 5].op = "free"
    /\ trace[PageCapacity + 5].finalized = <<Handle(1, 1)>>
    /\ deque.pages = <<>>

\* C29: in every state between operations, a capturing session is running;
\* the call/return hook and the GC hook are registered, once, exactly when the
\* session is capturing and track_calls is set; the fiber-switch hook is
\* registered, once, exactly when the session is running.
C29_HooksFollowState ==
    /\ capture.capture => capture.running
    /\ hooks.callback = (IF capture.capture /\ capture.track_calls THEN 1 ELSE 0)
    /\ hooks.gc = (IF capture.capture /\ capture.track_calls THEN 1 ELSE 0)
    /\ hooks.fiber_switch = (IF capture.running THEN 1 ELSE 0)

\* A running session with track_calls that a fiber switch has paused after an
\* earlier window was sampled.
C29_PausedWhileRunning ==
    /\ last_op.op = "fiber_switch"
    /\ last_op.capturing
    /\ capture.running
    /\ ~capture.capture
    /\ capture.track_calls
    /\ capture.samples > 0
    /\ hooks = [callback |-> 0, gc |-> 0, fiber_switch |-> 1]

\* The step is a fiber-switch notification.
Notified == last_op'.op = "fiber_switch"

\* C30: stalls <= samples <= switches in every state, across any sequence of
\* start, stop, fiber switches and events.  switches goes up by exactly one in
\* every fiber-switch notification, whether the session is capturing or
\* paused, and in no other step; stalls goes up only in a notification that
\* ends a sampled window, by one; no counter ever goes down, stop followed by
\* start included.
C30_CounterOrder ==
    /\ [](capture.stalls <= capture.samples /\ capture.samples <= capture.switches)
    /\ [][/\ capture'.switches = capture.switches + (IF Notified THEN 1 ELSE 0)
          /\ capture'.samples >= capture.samples
          /\ capture'.stalls >= capture.stalls
          /\ capture'.stalls # capture.stalls =>
                 /\ Notified
                 /\ capture.capture
                 /\ capture'.stalls = capture.stalls + 1]_vars

\* A session started again after a stop, with the counts of the stalled window
\* it sampled before the stop.
C30_CountersKeptAcrossRestart ==
    /\ last_op.op = "start"
    /\ last_op.result = "self"
    /\ capture.running
    /\ capture.stalls = 1
    /\ capture.samples >= 1
    /\ capture.switches = MaxSwitches

\* Without track_calls no call/return or GC hook is attached and the session
\* holds no frame.
UntrackedIsEmpty ==
    ~capture.track_calls =>
        /\ hooks.callback = 0
        /\ hooks.gc = 0
        /\ Frames = <<>>
        /\ capture.current = NULL
        /\ capture.nesting = 0

\* The report of a stalled window without frames: the window's duration and no
\* call.
EmptyReport(document, duration) ==
    /\ document # NoDocument
    /\ document.calls = <<>>
    /\ document.skipped = 0
    /\ document.duration = duration

\* C31: with track_calls false no call/return hook is ever attached and the
\* arena stays empty in every state, yet windows are still sampled and timed:
\* at the fiber switch that ends a sampled window longer than stall_threshold,
\* stalls goes up by one and the report is printed once, and the report (the
\* session's output renders one unless it is nil) has the window's duration and
\* an empty list of calls.
C31_UntrackedWindows ==
    /\ []UntrackedIsEmpty
    /\ [][(/\ ~capture.track_calls
           /\ EndsWindow
           /\ last_op'.time - capture.switch_time > capture.stall_threshold) =>
              /\ capture'.stalls = capture.stalls + 1
              /\ io'.prints = io.prints + 1
              /\ last_op'.frames = 0
              /\ capture.output # "nil" =>
                     EmptyReport(last_op'.document,
                                 last_op'.time - capture.switch_time)]_vars

\* A session without track_calls has sampled a window that stalled and written
\* its report, which lists no call.
C31_UntrackedStallReported ==
    /\ ~capture.track_calls
    /\ last_op.op = "fiber_switch"
    /\ last_op.capturing
    /\ last_op.duration > capture.stall_threshold
    /\ capture.samples >= 1
    /\ capture.stalls = 1
    /\ last_op.document.kind = "json"
    /\ last_op.document.calls = <<>>
    /\ io.writes = 1

\* The pages reached from `page` by following the head links, and by following
\* the tail links.
RECURSIVE PagesBack(_, _)
PagesBack(d, page) ==
    IF page = NULL THEN {} ELSE {page} \cup PagesBack(d, d.pages[page].head)

RECURSIVE PagesOn(_, _)
PagesOn(d, page) ==
    IF page = NULL THEN {} ELSE {page} \cup PagesOn(d, d.pages[page].tail)

\* The sum of the capacities of the pages from `page` on.
RECURSIVE CapacityFrom(_, _)
CapacityFrom(d, page) ==
    IF page = NULL THEN 0
    ELSE d.pages[page].capacity + CapacityFrom(d, d.pages[page].tail)

\* The assertions of Fiber_Profiler_Deque_debug on one page.
PageConsistent(d, p) ==
    /\ d.pages[p].size <= d.pages[p].capacity
    /\ d.pages[p].size = Len(d.pages[p].elements)
    /\ d.pages[p].head = NULL \/ d.pages[d.pages[p].head].tail = p
    /\ d.pages[p].tail = NULL \/ d.pages[d.pages[p].tail].head = p

\* The shape of the arena: consistent pages, all of them on the list from the
\* head, full before the tail page and empty after it, and a capacity field
\* that is the sum of the page capacities.
ArenaConsistent(d) ==
    /\ \A p \in 1..Len(d.pages) : PageConsistent(d, p)
    /\ (d.head = NULL) = (d.pages = <<>>)
    /\ (d.tail = NULL) = (d.head = NULL)
    /\ d.head # NULL => d.pages[d.head].head = NULL
    /\ PagesOn(d, d.head) = 1..Len(d.pages)
    /\ PagesBack(d, d.tail) \cup PagesOn(d, d.tail) = 1..Len(d.pages)
    /\ \A p \in PagesBack(d, d.tail) \ {d.tail} :
           d.pages[p].size = d.pages[p].capacity
    /\ \A p \in PagesOn(d, d.tail) \ {d.tail} : d.pages[p].size = 0
    /\ d.capacity = CapacityFrom(d, d.head)

\* The slots last and each read are slots of their pages below the page's size.
ReadsInBounds(d) ==
    /\ Fiber_Profiler_Deque_last(d) # NULL => Live(d, Fiber_Profiler_Deque_last(d))
    /\ \A i \in 1..Len(Fiber_Profiler_Deque_each(d)) :
           Live(d, Fiber_Profiler_Deque_each(d)[i])

\* The slot the step's operation returned or finalized was below its page's
\* size when the operation read it: after page->size += 1 in push, before
\* page->size is lowered in pop and truncate.
AccessInBounds(entry) ==
    /\ (entry.op = "push" /\ entry.element # NULL) => Live(deque', entry.element)
    /\ (entry.op = "pop" /\ entry.element # NULL) => Live(deque, entry.element)
    /\ \A i \in 1..Len(entry.finalized) : Live(deque, entry.finalized[i])

\* C32: after every push, pop and truncate each page has size <= capacity, the
\* head and tail links of adjacent pages agree, every page before the deque's
\* tail page is full and every page after it is empty, the deque's capacity is
\* the sum of the page capacities, and every slot access is at an index below
\* the page's size, so the assertions of Deque_debug and Page_get never fail.
C32_ArenaStructure ==
    /\ [](~Released => ArenaConsistent(deque) /\ ReadsInBounds(deque))
    /\ [][AccessInBounds(trace'[Len(trace')])]_vars

\* Two pages, the second emptied by pops and the tail walked back to the first,
\* which a further pop left short of full.
C32_TailWalkedBack ==
    /\ trace # <<>>
    /\ trace[Len(trace)].op = "pop"
    /\ Len(deque.pages) = 2
    /\ deque.tail = 1
    /\ deque.pages[1].size = PageCapacity - 1
    /\ deque.pages[2].size = 0
    /\ deque.capacity = 2 * PageCapacity

=============================================================================
